---- MODULE Spec2Model ----
(***************************************************************************)
(* A model of nuVeto's selfveto.py: the SelfVeto engine (decay kernel,     *)
(* flux accessor, integrand, the two lru_cache'd methods, get_fluxes) and  *)
(* the module-level registry SVS with passing_rate / total_flux.           *)
(*                                                                         *)
(* Numbers are exact rationals <<numerator, denominator>>.  The external   *)
(* collaborators (the cascade solver MCEq, the particle tables, the muon   *)
(* reach tables, the primary flux model) are small data tables selected    *)
(* by the variable world.  The energy grid has three nodes, for which      *)
(* scipy's interp1d(kind='quadratic') is the one parabola through the      *)
(* three nodes, so the interpolants are computed exactly.  The tables are  *)
(* in units that keep the rationals small.                                 *)
(***************************************************************************)
EXTENDS Integers, Sequences, FiniteSets, TLC

VARIABLES
    world,            \* the external data the process runs against
    SVS,              \* selfveto.py:308, registry key -> engine
    mceq,             \* per engine: what its cascade solver holds
    grid_sol_cache,   \* selfveto.py:204, the lru_cache of grid_sol
    prob_nomu_cache,  \* selfveto.py:214, the lru_cache of prob_nomu
    recent,           \* history: the keys asked of prob_nomu or get_dNdEE, oldest first
    call              \* the last call made and what it returned

vars == <<world, SVS, mceq, grid_sol_cache, prob_nomu_cache, recent, call>>

(***************************************************************************)
(* Exact rational arithmetic.                                              *)
(***************************************************************************)
Abs(n) == IF n < 0 THEN -n ELSE n

RECURSIVE GCD(_, _)
GCD(a, b) == IF b = 0 THEN a ELSE GCD(b, a % b)

Rat(n, d) ==
    LET g == GCD(Abs(n), Abs(d))
        s == IF d < 0 THEN -1 ELSE 1
    IN  <<s * (n \div g), s * (d \div g)>>

RInt(n) == <<n, 1>>
RZero == <<0, 1>>
ROne == <<1, 1>>

RAdd(a, b) ==
    LET g == GCD(a[2], b[2])
    IN  Rat(a[1] * (b[2] \div g) + b[1] * (a[2] \div g), (a[2] \div g) * b[2])

RNeg(a) == <<-a[1], a[2]>>
RSub(a, b) == RAdd(a, RNeg(b))

RMul(a, b) ==
    LET g1 == GCD(Abs(a[1]), b[2])
        g2 == GCD(Abs(b[1]), a[2])
    IN  Rat((a[1] \div g1) * (b[1] \div g2), (a[2] \div g2) * (b[2] \div g1))

RDiv(a, b) == RMul(a, IF b[1] < 0 THEN <<-b[2], -b[1]>> ELSE <<b[2], b[1]>>)

RLe(a, b) == RSub(b, a)[1] >= 0
RLt(a, b) == RSub(b, a)[1] > 0

\* A numpy array is a tuple of its elements (f \o <<>> is f as a tuple)
Array(f) == f \o <<>>

\* The sum of an array
RECURSIVE RSumFrom(_, _)
RSumFrom(s, k) == IF k > Len(s) THEN RZero ELSE RAdd(s[k], RSumFrom(s, k + 1))

RSum(s) == RSumFrom(Array(s), 1)

\* Statement order: first is computed, then second is the result
Then(first, second) == IF first = first THEN second ELSE second

\* Assignment to a local name: x is computed once, then the statements F
\* that use it
With(x, F(_)) == Then(x, F(x))

\* numpy: elementwise product and sum of two arrays
VMul(u, v) == Array([i \in 1..Len(u) |-> RMul(u[i], v[i])])
VAdd(u, v) == Array([i \in 1..Len(u) |-> RAdd(u[i], v[i])])

\* numpy.trapz(y, x)
Trapz(y, x) ==
    RSum([k \in 1..(Len(x) - 1) |->
            RMul(RInt(x[k + 1] - x[k]),
                 RMul(RAdd(y[k], y[k + 1]), <<1, 2>>))])

\* The parabola through three nodes (xs ascending, xs and ys rationals) at t:
\* what interp1d(kind='quadratic') is on three points.
Quadratic3(xs, ys, t) ==
    RSum([i \in 1..3 |->
            LET o == IF i = 1 THEN <<2, 3>> ELSE IF i = 2 THEN <<1, 3>> ELSE <<1, 2>>
            IN  RMul(ys[i],
                     RDiv(RMul(RSub(t, xs[o[1]]), RSub(t, xs[o[2]])),
                          RMul(RSub(xs[i], xs[o[1]]), RSub(xs[i], xs[o[2]]))))])

SetMax(S) == CHOOSE m \in S : \A n \in S : n <= m
SetMin(S) == CHOOSE m \in S : \A n \in S : m <= n

(***************************************************************************)
(* The data the engine runs against.  Worlds differ in what the external   *)
(* tables hold; every table is non-negative.                               *)
(***************************************************************************)
Worlds == {"A", "B"}

\* mceq.e_grid and mceq.e_widths: three log-spaced nodes an octave apart, each
\* bin 3/4 of its node wide
e_grid == <<1, 2, 4>>
e_widths == << <<3, 4>>, <<3, 2>>, <<3, 1>> >>
NE == Len(e_grid)

\* ParticleProperties.pdg_id
pdg_id ==
    ("p+" :> 2212) @@ ("pbar-" :> -2212) @@ ("pi+" :> 211) @@ ("pi-" :> -211)
    @@ ("K+" :> 321) @@ ("K-" :> -321) @@ ("K0L" :> 130)
    @@ ("mu-" :> 13) @@ ("mu+" :> -13) @@ ("numu" :> 14) @@ ("antinumu" :> -14)

\* ParticleProperties.mass_dict and lifetime_dict (model units)
mass_dict ==
    ("p+" :> 4) @@ ("pbar-" :> 4) @@ ("pi+" :> 1) @@ ("pi-" :> 1)
    @@ ("K+" :> 2) @@ ("K-" :> 2) @@ ("K0L" :> 2)
    @@ ("mu-" :> 1) @@ ("mu+" :> 1) @@ ("numu" :> 0) @@ ("antinumu" :> 0)

lifetime_dict ==
    ("p+" :> 16) @@ ("pbar-" :> 16) @@ ("pi+" :> 1) @@ ("pi-" :> 1)
    @@ ("K+" :> 2) @@ ("K-" :> 2) @@ ("K0L" :> 4)
    @@ ("mu-" :> 1) @@ ("mu+" :> 1) @@ ("numu" :> 1) @@ ("antinumu" :> 1)

\* The mother of a decay channel without its charge: pi, K, K0L or mu
Flavour(mother) ==
    IF mother \in {"pi+", "pi-"} THEN "pi"
    ELSE IF mother \in {"K+", "K-"} THEN "K"
    ELSE IF mother = "K0L" THEN "K0L" ELSE "mu"

\* The (mother, daughter) pairs the decay matrix tabulates
DecayChannels ==
    {<<"pi+", "numu">>, <<"K+", "numu">>, <<"K0L", "numu">>, <<"mu-", "numu">>,
     <<"pi-", "antinumu">>, <<"K-", "antinumu">>, <<"K0L", "antinumu">>,
     <<"mu+", "antinumu">>}

\* ParticleProperties.rr(mother, daughter), 0 < rr < 1
rr(mother, daughter) == <<1, 4>>

\* ParticleProperties.br_2body(mother, daughter)
br_2body(mother, daughter) ==
    CASE Flavour(mother) = "pi" -> <<3, 4>>
      [] Flavour(mother) = "K" -> <<3, 8>>
      [] OTHER -> <<0, 1>>

\* mceq.decays.get_d_matrix(mother, daughter)[ihijo]: the decay matrix row of
\* daughter bin ihijo over the mother bins
d_matrix_row(w, mother, daughter) ==
    CASE Flavour(mother) = "pi" -> IF w = "A" THEN <<0, 3, 6>> ELSE <<0, 6, 0>>
      [] Flavour(mother) = "K" -> IF w = "A" THEN <<3, 6, 3>> ELSE <<0, 3, 9>>
      [] Flavour(mother) = "K0L" -> <<0, 3, 3>>
      [] OTHER -> IF w = "A" THEN <<0, 6, 3>> ELSE <<0, 0, 3>>

(***************************************************************************)
(* get_dNdEE, selfveto.py:84-104                                           *)
(***************************************************************************)
\* selfveto.py:85 (20 on the solver's grid; the first node of this one)
ihijo == 1

x_range == [i \in 1..NE |-> Rat(e_grid[ihijo], e_grid[i])]

\* 10 ** logx_width: a bin of the log grid, as a factor
BinRatio == Rat(e_grid[2], e_grid[1])

dNdEE_edge(mother, daughter) ==
    RDiv(br_2body(mother, daughter), RSub(ROne, rr(mother, daughter)))

dNdEE(w, mother, daughter) ==
    Array([i \in 1..NE |->
        RMul(RInt(d_matrix_row(w, mother, daughter)[i]),
             RDiv(RInt(e_grid[i]), e_widths[i]))])

\* good = (logx + logx_width/2 < log10(1-rr)) & (x_range >= 5.e-2); the first
\* test squared: x^2 * 10^logx_width < (1-rr)^2
good(mother, daughter) ==
    {i \in 1..NE :
        /\ RLt(RMul(RMul(x_range[i], x_range[i]), BinRatio),
               RMul(RSub(ROne, rr(mother, daughter)), RSub(ROne, rr(mother, daughter))))
        /\ RLe(<<5, 100>>, x_range[i])}

\* lower = dNdEE[good][-1]
lower(w, mother, daughter) ==
    dNdEE(w, mother, daughter)[SetMax(good(mother, daughter))]

\* The lookups and the interpolant's construction that raise
get_dNdEE_fails(w, mother, daughter) ==
    \/ mother \notin DOMAIN pdg_id
    \/ daughter \notin DOMAIN pdg_id
    \/ <<mother, daughter>> \notin DecayChannels
    \/ Cardinality(good(mother, daughter)) # 2

\* The returned interpolant, lines 100-103: its nodes, ascending (the good
\* samples, then 1 - rr), its values there and fill_value=(lower, 0.0)
get_dNdEE(w, mother, daughter) ==
    LET g == good(mother, daughter)
        hi == SetMax(g)
        lo == SetMin(g)
        d == dNdEE(w, mother, daughter)
    IN  [xs |-> <<x_range[hi], x_range[lo], RSub(ROne, rr(mother, daughter))>>,
         ys |-> <<d[hi], d[lo], dNdEE_edge(mother, daughter)>>,
         below |-> lower(w, mother, daughter),
         above |-> RZero]

\* fill_value=(lower, 0.0) as a mutation: the two fills exchanged
dNdEE_interp_swapped(f, x) ==
    IF RLt(x, f.xs[1]) THEN f.above
    ELSE IF RLt(f.xs[3], x) THEN f.below
    ELSE Quadratic3(f.xs, f.ys, x)

\* dNdEE_interp(x): interp1d(..., kind='quadratic', bounds_error=False,
\* fill_value=(lower, 0.0)) at x
dNdEE_interp(f, x) ==
    IF RLt(x, f.xs[1]) THEN f.below
    ELSE IF RLt(f.xs[3], x) THEN f.above
    ELSE Quadratic3(f.xs, f.ys, x)

(***************************************************************************)
(* The cascade solver (MCEq) behind an engine, as data.  A cascade         *)
(* solution (a grid_sol list) is [costh, prim, n]: the engine's zenith     *)
(* cosine, the primary it was solved for (ModelPrim, or <<ecr, particle>>)   *)
(* and its number of depth samples.                                        *)
(***************************************************************************)
\* Depth samples an engine keeps: len(x_vec), selfveto.py:36-41 (10 there)
NX == 2

\* grid_idx=None (selfveto.py:111) and the primary of grid_sol() with no
\* arguments, which solves the primary model (selfveto.py:205-209)
None == -1
ModelPrim == <<0, 0>>

\* mceq.pname2pref: the names the solver's state vector holds
SolverNames(w) ==
    {"p+", "pi+", "pi-", "K+", "K-", "K0L", "mu-", "mu+",
     "k_mu-", "pi_mu-", "pr_mu-", "k_mu+", "pi_mu+", "pr_mu+"}
    \cup (IF w = "C" THEN {} ELSE {"pbar-"})

\* config['adv_set']['allowed_projectiles'] (mceq_config)
allowed_projectiles == <<2212, 130>>

\* ParticleProperties.modtab.pdg2modname
pdg2modname == (2212 :> "p+") @@ (-2212 :> "pbar-") @@ (130 :> "K0L")

\* The (projectile, secondary) pairs mceq.y has a yield matrix for
YieldChannels ==
    {"p+", "pbar-", "K0L"} \X {"pi+", "pi-", "K0L"}
    \cup {<<"p+", "K+">>, <<"p+", "K-">>, <<"K0L", "K+">>, <<"K0L", "K-">>}

\* mceq.y.get_y_matrix(projectile, secondary)[i][k]: secondaries of bin i from
\* projectiles of bin k
y_matrix(prim, name, i, k) ==
    IF k >= i THEN 3 ELSE 0

\* mceq.cs.get_cs(pdg): the inelastic cross section per energy bin
get_cs(name) == IF name \in {"p+", "pbar-"} THEN <<1, 1, 2>> ELSE <<1, 1, 1>>

\* mceq.density_model.X2rho(x_vec[idx]) * Units.Na / Units.mol_air
ndens(costh, idx) == idx + 1

\* The largest energy bin a solution populates: every bin for the primary
\* model, the bins up to ecr for a single primary of energy ecr
TopBin(prim) ==
    IF prim = ModelPrim THEN NE
    ELSE Cardinality({i \in 1..NE : e_grid[i] <= prim[1]})

\* What the solver's state vector holds for a name at one depth sample
BaseFlux(w, costh, name, idx) ==
    LET deep == (idx + (IF costh = 100 THEN 0 ELSE 1)) % 2 = 1
    IN  CASE name = "p+" -> IF deep THEN <<2, 1, 0>> ELSE <<4, 2, 1>>
          [] name = "pbar-" -> <<1, 0, 0>>
          [] name \in {"pi+", "pi-"} ->
                IF w = "B" THEN <<24, 6, 6>>
                ELSE IF deep THEN <<3, 6, 0>> ELSE <<6, 6, 0>>
          [] name \in {"K+", "K-"} ->
                IF w = "B" THEN <<2, 1, 1>>
                ELSE IF deep THEN <<3, 6, 0>> ELSE <<6, 0, 0>>
          [] name = "K0L" -> IF w = "B" THEN <<2, 1, 1>> ELSE <<6, 12, 0>>
          [] name \in {"mu-", "mu+"} -> IF deep THEN <<6, 0, 0>> ELSE <<3, 0, 0>>
          [] name \in {"pi_mu-", "pi_mu+"} -> IF deep THEN <<0, 1, 0>> ELSE <<0, 0, 0>>
          [] name \in {"k_mu-", "k_mu+"} -> IF deep THEN <<0, 0, 1>> ELSE <<0, 0, 0>>
          [] OTHER -> <<0, 0, 0>>

\* sol[ref[name].lidx():ref[name].uidx()] of sample idx (0-based) of a solution
SolFlux(w, sol, idx, name) ==
    [i \in 1..NE |->
        IF i <= TopBin(sol.prim) THEN BaseFlux(w, sol.costh, name, idx)[i] ELSE 0]

(***************************************************************************)
(* The primary model and the requests made of passing_rate and total_flux. *)
(***************************************************************************)
\* A cascade solution of an engine: what mceq.solve leaves in mceq.grid_sol
Solution(costh, prim) == [costh |-> costh, prim |-> prim, n |-> NX]

\* The same list cut to its first n samples
Truncated(sol, n) == [sol EXCEPT !.n = n]

\* pmodel.nucleus_ids and amu(particle): the species of the primary model and
\* their mass numbers
nucleus_ids == <<14, 402>>
amu(particle) == IF particle = 14 THEN 1 ELSE 4

\* pmodel.nucleus_flux(particle, ecr), positive and falling
nucleus_flux(particle, ecr) == Rat(amu(particle), ecr)

\* np.logspace(2, 10, 10*accuracy), line 271 (two samples an octave apart)
ecr_base == <<2, 4>>

get_ecrs(particle) == Array([k \in 1..Len(ecr_base) |-> amu(particle) * ecr_base[k]])

\* What the callers of passing_rate and total_flux ask for
EnuAsked == {1}
CosAsked == {100, 50}
KindsAsked == {<<"conv", "numu">>}
PrplAsked == {"step_1", "half"}

\* The cascade solutions get_fluxes works with for those requests
SolutionsAsked ==
    {Solution(c, p) :
        c \in CosAsked,
        p \in {ModelPrim} \cup
              UNION {{<<get_ecrs(nucleus_ids[j])[k], nucleus_ids[j]>> :
                        k \in 1..Len(ecr_base)} : j \in 1..Len(nucleus_ids)}}

(***************************************************************************)
(* projectiles, selfveto.py:70-81                                          *)
(***************************************************************************)
RECURSIVE projectiles_from(_)
projectiles_from(pdg_ids) ==
    IF pdg_ids = <<>> THEN <<>>
    ELSE LET id == Head(pdg_ids)
         IN  <<pdg2modname[id]>>
             \o (IF -id \in DOMAIN pdg2modname THEN <<pdg2modname[-id]>> ELSE <<>>)
             \o projectiles_from(Tail(pdg_ids))

projectiles == projectiles_from(allowed_projectiles)

(***************************************************************************)
(* get_solution, selfveto.py:107-183                                       *)
(***************************************************************************)
\* The depth sample read: lines 135-143.  cur is the solution the engine's
\* solver holds (self.mceq.grid_sol), grid_sol the one passed in.
\* [err, at]: at is the 0-based sample of grid_sol, xat that of x_vec.
pick_sample(grid_sol, cur, grid_idx) ==
    IF grid_idx = None THEN [err |-> "", at |-> grid_sol.n - 1, xat |-> NX - 1]
    ELSE IF grid_idx >= cur.n THEN [err |-> "", at |-> grid_sol.n - 1, xat |-> NX - 1]
    ELSE IF grid_idx >= grid_sol.n \/ grid_idx >= NX
         THEN [err |-> "IndexError", at |-> 0, xat |-> 0]
    ELSE [err |-> "", at |-> grid_idx, xat |-> grid_idx]

is_mu(particle_name) == particle_name \in {"mu-", "mu+"}

\* The names get_solution looks up in ref besides the projectiles
ref_names(particle_name) ==
    {particle_name}
    \cup (IF is_mu(particle_name)
          THEN {"k_" \o particle_name, "pi_" \o particle_name, "pr_" \o particle_name}
          ELSE {})

\* Lines 155-157 as a mutation: the projectile lookups moved under the try, so
\* that a projectile the solver does not know is skipped
get_solution_err_lenient(w, particle_name, grid_sol, cur, grid_idx) ==
    IF particle_name \notin DOMAIN pdg_id THEN "KeyError"
    ELSE IF pick_sample(grid_sol, cur, grid_idx).err # ""
         THEN pick_sample(grid_sol, cur, grid_idx).err
    ELSE IF ref_names(particle_name) \subseteq SolverNames(w) THEN "" ELSE "KeyError"

\* "" when get_solution returns an array, else the exception it raises
get_solution_err(w, particle_name, grid_sol, cur, grid_idx) ==
    IF particle_name \notin DOMAIN pdg_id THEN "KeyError"
    ELSE IF pick_sample(grid_sol, cur, grid_idx).err # ""
         THEN pick_sample(grid_sol, cur, grid_idx).err
    ELSE IF \E k \in 1..Len(projectiles) :
                projectiles[k] \notin SolverNames(w) \/ projectiles[k] \notin DOMAIN pdg_id
         THEN "KeyError"
    ELSE IF ref_names(particle_name) \subseteq SolverNames(w) THEN "" ELSE "KeyError"

\* meson decay length, line 149
decayl(particle_name) ==
    Array([i \in 1..NE |->
        Rat(e_grid[i] * lifetime_dict[particle_name], mass_dict[particle_name])])

\* lines 154-165: the sum over the projectiles that have a yield matrix for the
\* species; a projectile without one is skipped (except KeyError: continue)
regenerated(w, particle_name, grid_sol, at, xat) ==
    Array([i \in 1..NE |->
        RSum([p \in 1..Len(projectiles) |->
            IF <<projectiles[p], particle_name>> \notin YieldChannels THEN RZero
            ELSE RSum([k \in 1..NE |->
                    RInt(y_matrix(projectiles[p], particle_name, i, k)
                         * SolFlux(w, grid_sol, at, projectiles[p])[k]
                         * get_cs(projectiles[p])[k]
                         * ndens(grid_sol.costh, xat))])])])

direct(w, particle_name, grid_sol, at) ==
    Array([i \in 1..NE |-> RInt(SolFlux(w, grid_sol, at, particle_name)[i])])

\* line 171 as a mutation: the direct component added to the regenerated one
combine_added(reg, dir) == Array([i \in 1..NE |-> RAdd(reg[i], dir[i])])

\* line 171: res[direct!=0] = direct[direct!=0]
combine(reg, dir) ==
    Array([i \in 1..NE |-> IF dir[i] # RZero THEN dir[i] ELSE reg[i]])

\* lines 173-176: the muon sub-solutions by parent category
mu_parts(w, particle_name, grid_sol, at) ==
    Array([i \in 1..NE |->
        IF is_mu(particle_name)
        THEN RInt(SolFlux(w, grid_sol, at, "k_" \o particle_name)[i]
                  + SolFlux(w, grid_sol, at, "pi_" \o particle_name)[i]
                  + SolFlux(w, grid_sol, at, "pr_" \o particle_name)[i])
        ELSE RZero])

RECURSIVE IPow(_, _)
IPow(b, n) == IF n = 0 THEN 1 ELSE b * IPow(b, n - 1)

\* The array get_solution returns when it raises nothing
get_solution(w, particle_name, grid_sol, cur, mag, grid_idx, integrate) ==
    LET s == pick_sample(grid_sol, cur, grid_idx)
        res == VAdd(combine(VMul(regenerated(w, particle_name, grid_sol, s.at, s.xat),
                                 decayl(particle_name)),
                            direct(w, particle_name, grid_sol, s.at)),
                    mu_parts(w, particle_name, grid_sol, s.at))
        scaled == Array([i \in 1..NE |-> RMul(res[i], RInt(IPow(e_grid[i], mag)))])
    IN  IF integrate THEN VMul(scaled, e_widths) ELSE scaled

(***************************************************************************)
(* categ_to_mothers, selfveto.py:51-67                                     *)
(***************************************************************************)
is_anti(daughter) == daughter \in {"antinumu", "antinue"}
is_nue(daughter) == daughter \in {"nue", "antinue"}

categ_to_mothers(categ, daughter) ==
    LET charge == IF is_anti(daughter) THEN "-" ELSE "+"
        lcharge == IF is_anti(daughter) THEN "+" ELSE "-"
        bar == IF is_anti(daughter) THEN "-bar" ELSE ""
        lbar == IF is_anti(daughter) THEN "" ELSE "-bar"
    IN  IF categ = "conv"
        THEN <<"pi" \o charge, "K" \o charge, "K0L">>
             \o (IF is_nue(daughter) THEN <<"K0S", "mu" \o charge>>
                 ELSE <<"mu" \o lcharge>>)
        ELSE IF categ = "pr"
        THEN <<"D" \o charge, "Ds" \o charge, "D0" \o bar, "Lambda0" \o lbar>>
        ELSE <<categ>>

(***************************************************************************)
(* get_rescale_phi, selfveto.py:186-190                                    *)
(***************************************************************************)
\* self.dh_vec[idx], the path length across depth step idx
dh_vec(costh, idx) == IF costh = 100 THEN idx + 1 ELSE 2 * (idx + 1)

\* The returned interpolant, as its values on the nodes e_grid: lines 187-190
get_rescale_phi(w, mother, grid_sol, cur, idx) ==
    LET phi == get_solution(w, mother, grid_sol, cur, 0, idx, FALSE)
    IN  Array([i \in 1..NE |->
            RMul(Rat(mass_dict[mother] * dh_vec(grid_sol.costh, idx),
                     e_grid[i] * lifetime_dict[mother]),
                 phi[i])])

\* get_rescale_phi on the solutions get_fluxes works with, worked out once
rescale_phi_args ==
    {<<w, mother, sol, NX, idx>> :
        w \in Worlds,
        mother \in UNION {{categ_to_mothers(kind[1], kind[2])[m] :
                             m \in 1..Len(categ_to_mothers(kind[1], kind[2]))} :
                          kind \in KindsAsked},
        sol \in SolutionsAsked, idx \in 0..(NX - 1)}

rescale_phi_table ==
    [a \in rescale_phi_args |->
        get_rescale_phi(a[1], a[2], a[3], [a[3] EXCEPT !.n = a[4]], a[5])]

rescale_phi_nodes(w, mother, grid_sol, cur, idx) ==
    LET a == <<w, mother, grid_sol, cur.n, idx>>
    IN  IF a \in rescale_phi_args THEN rescale_phi_table[a]
        ELSE get_rescale_phi(w, mother, grid_sol, cur, idx)

\* rescale_phi(en): interp1d(e_grid, rescale_phi, kind='quadratic',
\* fill_value='extrapolate') at energy en
rescale_phi(interp, en) ==
    Quadratic3(<<RInt(e_grid[1]), RInt(e_grid[2]), RInt(e_grid[3])>>, interp, RInt(en))

(***************************************************************************)
(* get_integrand, selfveto.py:193-201                                      *)
(***************************************************************************)
\* "" when get_integrand returns, else the first exception of its loop
get_integrand_err(w, categ, daughter, grid_sol, cur, idx) ==
    LET mothers == categ_to_mothers(categ, daughter)
        errs == [m \in 1..Len(mothers) |->
                    IF get_dNdEE_fails(w, mothers[m], daughter) THEN "KeyError"
                    ELSE get_solution_err(w, mothers[m], grid_sol, cur, idx)]
        bad == {m \in 1..Len(mothers) : errs[m] # ""}
    IN  IF bad = {} THEN "" ELSE errs[SetMin(bad)]

\* ys over the samples esamp; weight_fn is an array over the samples
get_integrand(w, categ, daughter, grid_sol, cur, idx, weight_fn, esamp, enu) ==
    LET mothers == categ_to_mothers(categ, daughter)
        kernels == Array([m \in 1..Len(mothers) |-> get_dNdEE(w, mothers[m], daughter)])
        phis == Array([m \in 1..Len(mothers) |->
                        rescale_phi_nodes(w, mothers[m], grid_sol, cur, idx)])
    IN  Array([k \in 1..Len(esamp) |->
            RSum([m \in 1..Len(mothers) |->
                RMul(RMul(RDiv(dNdEE_interp(kernels[m], Rat(enu, esamp[k])),
                               RInt(esamp[k])),
                          rescale_phi(phis[m], esamp[k])),
                     weight_fn[k])])])

(***************************************************************************)
(* The engine's methods called directly: get_dNdEE, get_solution and       *)
(* get_integrand on an engine whose solver has solved the primary model.   *)
(* Each behaviour is one call: the functions change no state.              *)
(***************************************************************************)
NoCall == [op |-> "none"]

DefaultKey == <<100, "H3a", "SIBYLL2.3c">>

\* The process after SelfVeto(1.0).grid_sol(): one engine, solved
InitEngine ==
    /\ world \in Worlds \cup {"C"}
    /\ SVS = <<>>
    /\ mceq = <<[costh |-> 100, pmodel |-> "H3a", hadr |-> "SIBYLL2.3c",
                 cur |-> Solution(100, ModelPrim)]>>
    /\ grid_sol_cache = <<[key |-> <<1>>, val |-> Solution(100, ModelPrim)]>>
    /\ prob_nomu_cache = <<>>
    /\ recent = <<>>
    /\ call = NoCall

\* Energy fractions x asked of a kernel
XQueries == {Rat(k, 12) : k \in 0..13}

\* Species asked of get_solution; "xi-" is in no table
SpeciesAsked == {"pi+", "K+", "K0L", "mu-", "p+", "xi-"}

\* Primaries whose solution is passed to get_solution and get_integrand
PrimsAsked == {ModelPrim, <<2, 14>>}

\* Categories asked of get_integrand; "atm" is neither a category nor a particle
CategsAsked == {"conv", "K+", "atm"}

CallGetDNdEE ==
    \E mother \in {"pi+", "K+", "K0L", "mu-", "xi-"}, x \in XQueries :
        /\ call = NoCall
        /\ call' = [op |-> "get_dNdEE", mother |-> mother, daughter |-> "numu",
                    x |-> x,
                    err |-> IF get_dNdEE_fails(world, mother, "numu")
                            THEN "KeyError" ELSE "",
                    ret |-> IF get_dNdEE_fails(world, mother, "numu") THEN RZero
                            ELSE dNdEE_interp(get_dNdEE(world, mother, "numu"), x)]
        /\ UNCHANGED <<world, SVS, mceq, grid_sol_cache, prob_nomu_cache, recent>>

CallGetSolution ==
    \E e \in 1..Len(mceq), name \in SpeciesAsked, prim \in PrimsAsked,
       n \in 1..NX, gi \in {None} \cup 0..NX, mag \in 0..1, integ \in BOOLEAN :
        LET gs == Truncated(Solution(mceq[e].costh, prim), n)
            err == get_solution_err(world, name, gs, mceq[e].cur, gi)
        IN  /\ call = NoCall
            /\ call' = [op |-> "get_solution", particle_name |-> name,
                        grid_sol |-> gs, cur |-> mceq[e].cur, grid_idx |-> gi,
                        mag |-> mag, integrate |-> integ, err |-> err,
                        ret |-> IF err = ""
                                THEN get_solution(world, name, gs, mceq[e].cur,
                                                  mag, gi, integ)
                                ELSE <<>>]
            /\ UNCHANGED <<world, SVS, mceq, grid_sol_cache, prob_nomu_cache, recent>>

CallGetIntegrand ==
    \E e \in 1..Len(mceq), categ \in CategsAsked, prim \in PrimsAsked,
       idx \in 0..(NX - 1), enu \in {1, 2} :
        LET gs == Solution(mceq[e].costh, prim)
            esamp == <<enu, enu + 1, enu + 2>>
            err == get_integrand_err(world, categ, "numu", gs, mceq[e].cur, idx)
        IN  /\ call = NoCall
            /\ call' = [op |-> "get_integrand", categ |-> categ, daughter |-> "numu",
                        grid_sol |-> gs, idx |-> idx, enu |-> enu, err |-> err,
                        ret |-> IF err = ""
                                THEN get_integrand(world, categ, "numu", gs,
                                                   mceq[e].cur, idx,
                                                   [k \in 1..3 |-> ROne], esamp, enu)
                                ELSE <<>>]
            /\ UNCHANGED <<world, SVS, mceq, grid_sol_cache, prob_nomu_cache, recent>>

NextEngine == CallGetDNdEE \/ CallGetSolution \/ CallGetIntegrand

SpecEngine == InitEngine /\ [][NextEngine]_vars

(***************************************************************************)
(* functools32.lru_cache(maxsize=2**10) on grid_sol and prob_nomu,         *)
(* selfveto.py:204 and 214.  The decorator is applied to the function in   *)
(* the class body, so each method has ONE cache for all engines; the key   *)
(* of an entry is the argument tuple as passed, self included.  A cache is *)
(* a sequence of [key, val], least recently used first.                    *)
(***************************************************************************)
\* selfveto.py:214 (2**10 there)
maxsize == 2

cache_hit(cache, key) == \E i \in 1..Len(cache) : cache[i].key = key

cache_index(cache, key) == CHOOSE i \in 1..Len(cache) : cache[i].key = key

cache_get(cache, key) == cache[cache_index(cache, key)].val

\* A hit as a mutation: the entry keeps its place (first in, first out)
lru_touch_fifo(cache, key) == cache

\* A hit: the entry becomes the most recently used
lru_touch(cache, key) ==
    LET i == cache_index(cache, key)
    IN  SubSeq(cache, 1, i - 1) \o SubSeq(cache, i + 1, Len(cache)) \o <<cache[i]>>

\* A miss as a mutation: the result is stored and nothing is evicted
lru_insert_unbounded(cache, key, val) == Append(cache, [key |-> key, val |-> val])

\* A miss: the result is stored as most recently used and, over maxsize, the
\* least recently used entry is dropped
lru_insert(cache, key, val) ==
    LET c == Append(cache, [key |-> key, val |-> val])
    IN  IF Len(c) > maxsize THEN Tail(c) ELSE c

(***************************************************************************)
(* grid_sol, selfveto.py:204-211.  args is <<>> or <<ecr, particle>>.      *)
(* The result is what the call leaves behind and returns.  A hit hands     *)
(* back the list stored at solve time: mceq.solve builds a new list on     *)
(* every solve, so a stored one is never written again.                    *)
(***************************************************************************)
\* The key as a mutation: the arguments without the engine
cache_key_without_self(e, args) == args

\* The key lru_cache files a method call under: the positional arguments as
\* passed, self first
cache_key(e, args) == <<e>> \o args

\* What a hit returns as a mutation: the list the solver holds now
cached_solution_live(gc, mq, e, key) == mq[e].cur

\* What a hit returns: the list stored under the key when it was solved
cached_solution(gc, mq, e, key) == cache_get(gc, key)

grid_sol(gc, mq, e, args) ==
    LET key == cache_key(e, args)
    IN  IF cache_hit(gc, key)
        THEN [cache |-> lru_touch(gc, key), mceq |-> mq, solves |-> 0,
              ret |-> cached_solution(gc, mq, e, key)]
        ELSE LET sol == Solution(mq[e].costh, IF args = <<>> THEN ModelPrim ELSE args)
             IN  [cache |-> lru_insert(gc, key, sol),
                  mceq |-> [mq EXCEPT ![e].cur = sol], solves |-> 1,
                  ret |-> sol]

(***************************************************************************)
(* prob_nomu, selfveto.py:214-223.  args is <<ecr, particle>> (prpl        *)
(* defaulted) or <<ecr, particle, prpl>>.                                  *)
(***************************************************************************)
\* Geometry.overburden(costh): the slant depth of ice above the detector
overburden(costh) == IF costh = 100 THEN 2 ELSE 4

\* MuonProb(tag).prpl((E, l_ice)): the probability, in [0,1], that a muon of
\* energy E reaches the detector through l_ice
prpl_at(tag, E, l_ice) ==
    IF tag = "step_1" THEN (IF E >= l_ice THEN ROne ELSE RZero)
    ELSE (IF E > 0 THEN <<1, 2>> ELSE RZero)

\* np.exp(-N), N >= 0, in base 2 with the exponent rounded up: 2^-ceil(N)
exp_neg(N) == Rat(1, IPow(2, -((-N[1]) \div N[2])))

\* The body of prob_nomu after grid_sol returned, lines 216-223
prob_nomu_body(w, costh, sol, cur, tag) ==
    LET l_ice == overburden(costh)
        mu == VAdd(get_solution(w, "mu-", sol, cur, 0, None, FALSE),
                   get_solution(w, "mu+", sol, cur, 0, None, FALSE))
        fn == Array([i \in 1..NE |-> prpl_at(tag, e_grid[i], l_ice)])
    IN  exp_neg(Trapz(VMul(mu, fn), e_grid))

\* The body on the solutions get_fluxes works with, worked out once
nomu_args ==
    {<<w, sol.costh, sol, NX, tag>> :
        w \in Worlds, sol \in SolutionsAsked, tag \in PrplAsked}

nomu_table ==
    [a \in nomu_args |->
        prob_nomu_body(a[1], a[2], a[3], [a[3] EXCEPT !.n = a[4]], a[5])]

nomu(w, costh, sol, cur, tag) ==
    LET a == <<w, costh, sol, cur.n, tag>>
    IN  IF a \in nomu_args THEN nomu_table[a]
        ELSE prob_nomu_body(w, costh, sol, cur, tag)

prob_nomu(w, pc, gc, mq, e, args) ==
    LET key == cache_key(e, args)
    IN  IF cache_hit(pc, key)
        THEN [pcache |-> lru_touch(pc, key), gcache |-> gc, mceq |-> mq,
              ret |-> cache_get(pc, key), hit |-> TRUE, solves |-> 0]
        ELSE With(grid_sol(gc, mq, e, <<args[1], args[2]>>),
                  LAMBDA g :
             With(nomu(w, mq[e].costh, g.ret, g.mceq[e].cur,
                       IF Len(args) = 3 THEN args[3] ELSE "step_1"),
                  LAMBDA val :
             [pcache |-> lru_insert(pc, key, val), gcache |-> g.cache,
              mceq |-> g.mceq, ret |-> val, hit |-> FALSE, solves |-> g.solves]))

(***************************************************************************)
(* prob_nomu called directly on two engines, SelfVeto(1.0) and             *)
(* SelfVeto(0.5), in any order.                                            *)
(***************************************************************************)
\* An engine as the constructor leaves it: the solver has solved nothing
Unsolved(costh) == [costh |-> costh, prim |-> ModelPrim, n |-> 0]

\* SelfVeto(costh, pmodel, hadr), selfveto.py:14-41
SelfVeto(costh, pmodel, hadr) ==
    [costh |-> costh, pmodel |-> pmodel, hadr |-> hadr, cur |-> Unsolved(costh)]

\* The argument lists prob_nomu is called with
ProbArgs == {<<2, 14, "step_1">>, <<2, 14>>, <<8, 14, "step_1">>}

\* How many other keys were requested since key was last requested; None when
\* that is unknown (never, or more than maxsize others)
Since(rec, key) ==
    IF \E p \in 1..Len(rec) : rec[p] = key
    THEN Len(rec) - (CHOOSE p \in 1..Len(rec) : rec[p] = key)
    ELSE None

\* recent after a request for key: the keys by last request, oldest first, as
\* far back as maxsize other keys
Requested(rec, key) ==
    LET others == SelectSeq(rec, LAMBDA k : k # key)
        all == Append(others, key)
    IN  IF Len(all) > maxsize + 1 THEN Tail(all) ELSE all

InitCache ==
    /\ world \in Worlds
    /\ SVS = <<>>
    /\ mceq = <<SelfVeto(100, "H3a", "SIBYLL2.3c"), SelfVeto(50, "H3a", "SIBYLL2.3c")>>
    /\ grid_sol_cache = <<>>
    /\ prob_nomu_cache = <<>>
    /\ recent = <<>>
    /\ call = NoCall

CallProbNomu ==
    \E e \in 1..Len(mceq), args \in ProbArgs :
      \E r \in {prob_nomu(world, prob_nomu_cache, grid_sol_cache, mceq, e, args)} :
            /\ prob_nomu_cache' = r.pcache
            /\ grid_sol_cache' = r.gcache
            /\ mceq' = r.mceq
            /\ recent' = Requested(recent, <<e>> \o args)
            /\ call' = [op |-> "prob_nomu", key |-> <<e>> \o args, err |-> "",
                        ret |-> r.ret, hit |-> r.hit, solves |-> r.solves,
                        since |-> Since(recent, <<e>> \o args)]
            /\ UNCHANGED <<world, SVS>>

NextCache == CallProbNomu

SpecCache == InitCache /\ [][NextCache]_vars

(***************************************************************************)
(* get_fluxes, selfveto.py:226-305.  The caches and the solvers are passed *)
(* along as env = [pc, gc, mq, solves] (no-mu cache, cascade-solution      *)
(* cache, engines, and the count of mceq.solve calls so far).  kind is     *)
(* <<categ, daughter>> (kind.split('_')).  Only the                        *)
(* conventional branch of the reach weighting is modelled (lines 237-240); *)
(* the prompt branch reads a histogram file that is not in the repository. *)
(***************************************************************************)
\* float division by zero in numpy: nan and +-inf
NaN == <<0, 0>>
Inf == <<1, 0>>

FDiv(a, b) ==
    IF b[1] # 0 THEN RDiv(a, b)
    ELSE IF a[1] = 0 THEN NaN
    ELSE IF a[1] > 0 THEN Inf ELSE RNeg(Inf)

\* np.logspace(log10(enu), log10(e_grid[-1]), 1000*accuracy): ascending samples
\* from enu up to the top of the grid, here the whole energies
get_esamp(enu) == Array([k \in 1..(e_grid[NE] - enu + 1) |-> enu + k - 1])

\* lines 231-240
get_reaching(kind, prpl, costh, esamp, enu) ==
    IF kind[2] \notin {"numu", "antinumu"} THEN Array([k \in 1..Len(esamp) |-> ROne])
    ELSE Array([k \in 1..Len(esamp) |->
                RSub(ROne, prpl_at(prpl, esamp[k] - enu, overburden(costh)))])

\* get_integrand on the arguments get_fluxes calls it with, worked out once
integrand_args ==
    UNION {LET esamp == get_esamp(enu)
               ones == Array([k \in 1..Len(esamp) |-> ROne])
           IN  {<<w, kind[1], kind[2], sol, NX, idx, wf, esamp, enu>> :
                    wf \in {ones} \cup {get_reaching(kind, t, sol.costh, esamp, enu) :
                                            t \in PrplAsked}} :
           w \in Worlds, kind \in KindsAsked, sol \in SolutionsAsked,
           idx \in 0..(NX - 1), enu \in EnuAsked}

integrand_table ==
    [a \in integrand_args |->
        get_integrand(a[1], a[2], a[3], a[4], [a[4] EXCEPT !.n = a[5]], a[6],
                      a[7], a[8], a[9])]

integrand(w, categ, daughter, sol, cur, idx, weight_fn, esamp, enu) ==
    LET a == <<w, categ, daughter, sol, cur.n, idx, weight_fn, esamp, enu>>
    IN  IF a \in integrand_args THEN integrand_table[a]
        ELSE get_integrand(w, categ, daughter, sol, cur, idx, weight_fn, esamp, enu)

\* One depth-summed pair of integrals, lines 260-264 and 288-297; pnmarr is the
\* extra weight of the numerator (all ones in corr_only mode)
depth_sums(w, kind, sol, cur, reaching, pnmarr, esamp, enu) ==
    [num |-> RSum([i \in 1..NX |->
                Trapz(VMul(integrand(w, kind[1], kind[2], sol, cur, i - 1,
                                     reaching, esamp, enu),
                           pnmarr),
                      esamp)]),
     den |-> RSum([i \in 1..NX |->
                Trapz(integrand(w, kind[1], kind[2], sol, cur, i - 1,
                                Array([k \in 1..Len(esamp) |-> ROne]), esamp, enu),
                      esamp)])]

\* line 272: the no-mu probabilities of the samples, one prob_nomu call each
RECURSIVE pnm_loop(_, _, _, _, _, _)
pnm_loop(w, env, e, particle, prpl, ecrs) ==
    IF ecrs = <<>> THEN [env |-> env, pnm |-> <<>>]
    ELSE With(prob_nomu(w, env.pc, env.gc, env.mq, e, <<Head(ecrs), particle, prpl>>),
              LAMBDA r :
         With(pnm_loop(w, [pc |-> r.pcache, gc |-> r.gcache, mq |-> r.mceq,
                           solves |-> env.solves + r.solves],
                       e, particle, prpl, Tail(ecrs)),
              LAMBDA rest :
         [pnm |-> <<r.ret>> \o rest.pnm, env |-> rest.env]))

\* pnmfn(t), lines 273-275: linear between the samples, 1 below, nan above
pnmfn(ecrs, pnm, t) ==
    IF t < ecrs[1] THEN ROne
    ELSE IF t > ecrs[Len(ecrs)] THEN NaN
    ELSE LET k == SetMin({j \in 1..(Len(ecrs) - 1) : t <= ecrs[j + 1]})
         IN  RAdd(pnm[k],
                  RMul(RSub(pnm[k + 1], pnm[k]),
                       Rat(t - ecrs[k], ecrs[k + 1] - ecrs[k])))

\* line 278: max(0, np.argmax(ecrs > enu) - 1), 0-based
get_istart(ecrs, enu) ==
    LET above == {k \in 1..Len(ecrs) : ecrs[k] > enu}
        argmax == IF above = {} THEN 0 ELSE SetMin(above) - 1
    IN  IF argmax - 1 > 0 THEN argmax - 1 ELSE 0

\* ecrs[istart:], lines 279 and 302-303
used_samples(ecrs, enu) == SubSeq(ecrs, get_istart(ecrs, enu) + 1, Len(ecrs))

\* lines 279-300: the loop over ecrs[istart:]
RECURSIVE ecr_loop(_, _, _, _, _, _, _, _, _, _, _)
ecr_loop(w, env, e, particle, kind, reaching, esamp, enu, ecrs, pnm, todo) ==
    IF todo = <<>> THEN [env |-> env, nums |-> <<>>, dens |-> <<>>]
    ELSE LET ecr == Head(todo)
             cr_flux == nucleus_flux(particle, ecr)
         IN  With(Array([k \in 1..Len(esamp) |-> pnmfn(ecrs, pnm, ecr - esamp[k])]),
                  LAMBDA pnmarr :
             With(grid_sol(env.gc, env.mq, e, <<ecr, particle>>),
                  LAMBDA g :
             With(depth_sums(w, kind, g.ret, g.mceq[e].cur, reaching, pnmarr,
                             esamp, enu),
                  LAMBDA d :
             With(ecr_loop(w, [pc |-> env.pc, gc |-> g.cache, mq |-> g.mceq,
                               solves |-> env.solves + g.solves], e,
                           particle, kind, reaching, esamp, enu, ecrs, pnm,
                           Tail(todo)),
                  LAMBDA rest :
             [nums |-> <<RMul(d.num, cr_flux)>> \o rest.nums,
              dens |-> <<RMul(d.den, cr_flux)>> \o rest.dens,
              env |-> rest.env]))))

\* lines 268-303: the loop over the species
RECURSIVE species_loop(_, _, _, _, _, _, _, _, _)
species_loop(w, env, e, kind, prpl, reaching, esamp, enu, species) ==
    IF species = <<>> THEN [env |-> env, passed |-> RZero, total |-> RZero]
    ELSE LET particle == Head(species)
             ecrs == get_ecrs(particle)
             todo == used_samples(ecrs, enu)
         IN  With(pnm_loop(w, env, e, particle, prpl, ecrs),
                  LAMBDA p :
             With(ecr_loop(w, p.env, e, particle, kind, reaching, esamp, enu,
                           ecrs, p.pnm, todo),
                  LAMBDA l :
             With(species_loop(w, l.env, e, kind, prpl, reaching, esamp, enu,
                               Tail(species)),
                  LAMBDA rest :
             [passed |-> RAdd(Trapz(l.nums, todo), rest.passed),
              total |-> RAdd(Trapz(l.dens, todo), rest.total),
              env |-> rest.env])))

get_fluxes(w, env, e, enu, kind, prpl, corr_only) ==
    LET esamp == get_esamp(enu)
    IN  With(get_reaching(kind, prpl, env.mq[e].costh, esamp, enu),
             LAMBDA reaching :
        IF corr_only
        THEN With(grid_sol(env.gc, env.mq, e, <<>>),
                  LAMBDA g :
             With(depth_sums(w, kind, g.ret, g.mceq[e].cur, reaching,
                             Array([k \in 1..Len(esamp) |-> ROne]), esamp, enu),
                  LAMBDA d :
             [env |-> [pc |-> env.pc, gc |-> g.cache, mq |-> g.mceq,
                       solves |-> env.solves + g.solves],
              passed |-> d.num, total |-> d.den]))
        ELSE species_loop(w, env, e, kind, prpl, reaching, esamp, enu, nucleus_ids))

(***************************************************************************)
(* The registry and the public functions, selfveto.py:308-329.  SVS maps a *)
(* key <<cos_theta, pmodel, hadr>> to an engine, named by its place in     *)
(* mceq.                                                                   *)
(***************************************************************************)
\* The except branch as a mutation: an engine is built and stored on every
\* request
registry_lookup_rebuild(svs, mq, key) ==
    [SVS |-> [k \in DOMAIN svs \cup {key} |-> IF k = key THEN Len(mq) + 1 ELSE svs[k]],
     mq |-> Append(mq, SelfVeto(key[1], key[2], key[3])),
     sv |-> Len(mq) + 1]

\* lines 312-316 and 323-327: try SVS[key], except KeyError build and store
registry_lookup(svs, mq, key) ==
    IF key \in DOMAIN svs
    THEN [SVS |-> svs, mq |-> mq, sv |-> svs[key]]
    ELSE [SVS |-> [k \in DOMAIN svs \cup {key} |->
                        IF k = key THEN Len(mq) + 1 ELSE svs[k]],
          mq |-> Append(mq, SelfVeto(key[1], key[2], key[3])),
          sv |-> Len(mq) + 1]

Init ==
    /\ world \in Worlds
    /\ SVS = <<>>
    /\ mceq = <<>>
    /\ grid_sol_cache = <<>>
    /\ prob_nomu_cache = <<>>
    /\ recent = <<>>
    /\ call = NoCall

\* The lookup and the get_fluxes call both functions start with
Request(enu, cos_theta, kind, prpl, corr_only) ==
    With(registry_lookup(SVS, mceq, <<cos_theta, "H3a", "SIBYLL2.3c">>),
         LAMBDA l :
    With(get_fluxes(world,
                    [pc |-> prob_nomu_cache, gc |-> grid_sol_cache, mq |-> l.mq,
                     solves |-> 0],
                    l.sv, enu, kind, prpl, corr_only),
         LAMBDA r :
    [SVS |-> l.SVS, sv |-> l.sv, env |-> r.env, passed |-> r.passed,
     total |-> r.total]))

PassingRate ==
    \E enu \in EnuAsked, cos_theta \in CosAsked, kind \in KindsAsked,
       prpl \in PrplAsked, corr_only \in BOOLEAN :
      \E r \in {Request(enu, cos_theta, kind, prpl, corr_only)} :
        \E fraction \in BOOLEAN :
            /\ SVS' = r.SVS
            /\ mceq' = r.env.mq
            /\ grid_sol_cache' = r.env.gc
            /\ prob_nomu_cache' = r.env.pc
            /\ call' = [op |-> "passing_rate", enu |-> enu, cos_theta |-> cos_theta,
                        kind |-> kind, prpl |-> prpl, corr_only |-> corr_only,
                        fraction |-> fraction, sv |-> r.sv, err |-> "",
                        solves |-> r.env.solves,
                        passed |-> r.passed, total |-> r.total,
                        ret |-> IF fraction THEN FDiv(r.passed, r.total)
                                ELSE r.passed]
            /\ UNCHANGED <<world, recent>>

TotalFlux ==
    \E enu \in EnuAsked, cos_theta \in CosAsked, kind \in KindsAsked,
       prpl \in PrplAsked, corr_only \in BOOLEAN :
      \E r \in {Request(enu, cos_theta, kind, prpl, corr_only)} :
            /\ SVS' = r.SVS
            /\ mceq' = r.env.mq
            /\ grid_sol_cache' = r.env.gc
            /\ prob_nomu_cache' = r.env.pc
            /\ call' = [op |-> "total_flux", enu |-> enu, cos_theta |-> cos_theta,
                        kind |-> kind, prpl |-> prpl, corr_only |-> corr_only,
                        fraction |-> FALSE, sv |-> r.sv, err |-> "",
                        solves |-> r.env.solves,
                        passed |-> r.passed, total |-> r.total,
                        ret |-> r.total]
            /\ UNCHANGED <<world, recent>>

Next == PassingRate \/ TotalFlux

Spec == Init /\ [][Next]_vars

(***************************************************************************)
(* Claims about passing_rate and total_flux, checked under Spec.           *)
(***************************************************************************)
IsRequest == call.op \in {"passing_rate", "total_flux"}

cache_keys(cache) == {cache[i].key : i \in 1..Len(cache)}

\* The same request made first thing in a new process
FirstRequest(enu, cos_theta, kind, prpl, corr_only) ==
    get_fluxes(world,
               [pc |-> <<>>, gc |-> <<>>, solves |-> 0,
                mq |-> <<SelfVeto(cos_theta, "H3a", "SIBYLL2.3c")>>],
               1, enu, kind, prpl, corr_only)

\* C1 as claimed: the pair get_fluxes returns has passed <= total, in
\* corr_only mode and in full mode, for reach probabilities in [0,1] and
\* non-negative solver fluxes.
C1_PassedAtMostTotal ==
    IsRequest => RLe(call.passed, call.total)

\* C2 as claimed: passing_rate with fraction=True returns passed/total, a value
\* in [0,1]; with fraction=False it returns passed; total_flux returns total.
C2_FractionInUnitInterval ==
    /\ (call.op = "passing_rate" /\ call.fraction) =>
            /\ call.ret = FDiv(call.passed, call.total)
            /\ call.ret[2] # 0
            /\ RLe(RZero, call.ret)
            /\ RLe(call.ret, ROne)
    /\ (call.op = "passing_rate" /\ ~call.fraction) => call.ret = call.passed
    /\ call.op = "total_flux" => call.ret = call.total

\* C3: the registry holds one engine per key requested, each built with its
\* key's configuration; a step never removes or rebinds a key; a request for a
\* key already present builds nothing and uses the engine bound to it, and a
\* request for a new key adds that key alone, bound to one new engine.
C3_OneEnginePerKey ==
    [][/\ \A k \in DOMAIN SVS :
            /\ k \in DOMAIN SVS'
            /\ SVS'[k] = SVS[k]
            /\ mceq'[SVS[k]].costh = k[1]
            /\ mceq'[SVS[k]].pmodel = k[2]
            /\ mceq'[SVS[k]].hadr = k[3]
       /\ Len(mceq') = Cardinality(DOMAIN SVS')
       /\ \A k1, k2 \in DOMAIN SVS' : SVS'[k1] = SVS'[k2] => k1 = k2
       /\ call'.op \in {"passing_rate", "total_flux"} =>
            LET key == <<call'.cos_theta, "H3a", "SIBYLL2.3c">>
            IN  /\ DOMAIN SVS' = DOMAIN SVS \cup {key}
                /\ call'.sv = SVS'[key]
                /\ mceq'[call'.sv].costh = call'.cos_theta
                /\ key \in DOMAIN SVS => Len(mceq') = Len(mceq)
                /\ key \notin DOMAIN SVS =>
                        /\ Len(mceq') = Len(mceq) + 1
                        /\ call'.sv = Len(mceq) + 1]_vars

\* C3 witness: with two keys in the registry, a request used the engine that
\* was built first
C3_Witness ==
    /\ IsRequest
    /\ Cardinality(DOMAIN SVS) = 2
    /\ Len(mceq) = 2
    /\ call.sv = 1

\* C6: what a request returns is what the same request returns when it is the
\* first of a new process, whatever was requested before it.
C6_ResultDependsOnArgumentsOnly ==
    IsRequest =>
        LET first == FirstRequest(call.enu, call.cos_theta, call.kind, call.prpl,
                                  call.corr_only)
        IN  /\ call.passed = first.passed
            /\ call.total = first.total
            /\ call.ret = (IF call.op = "total_flux" THEN first.total
                           ELSE IF call.fraction THEN FDiv(first.passed, first.total)
                           ELSE first.passed)

\* C6 witness: a request repeated after a request to the other engine, served
\* without a solve from the solution cached for its engine while the other
\* engine's was cached too
C6_Witness ==
    /\ IsRequest
    /\ Len(mceq) = 2
    /\ call.corr_only
    /\ call.solves = 0
    /\ cache_keys(grid_sol_cache) = {cache_key(1, <<>>), cache_key(2, <<>>)}

(***************************************************************************)
(* Claims about the engine's methods, checked under SpecEngine.            *)
(***************************************************************************)
IsCall(op) == call.op = op

\* The scaling get_solution applies last: E^mag, and the bin width if integrate
post_scale(i) ==
    RMul(RInt(IPow(e_grid[i], call.mag)),
         IF call.integrate THEN e_widths[i] ELSE ROne)

\* The sample a get_solution call read, and its two components there
call_sample == pick_sample(call.grid_sol, call.cur, call.grid_idx)
call_direct == direct(world, call.particle_name, call.grid_sol, call_sample.at)
call_regen ==
    VMul(regenerated(world, call.particle_name, call.grid_sol,
                     call_sample.at, call_sample.xat),
         decayl(call.particle_name))

\* The projectiles with no yield matrix for a species
missing_yields(name) ==
    {k \in 1..Len(projectiles) : <<projectiles[k], name>> \notin YieldChannels}

\* The projectiles the solver or the particle table does not know
unknown_projectiles ==
    {k \in 1..Len(projectiles) :
        projectiles[k] \notin SolverNames(world) \/ projectiles[k] \notin DOMAIN pdg_id}

unknown_species(name) == name \notin DOMAIN pdg_id \/ name \notin SolverNames(world)

\* C7 as claimed: an unknown particle or channel name anywhere in the
\* computation, the yield channel of a projectile included, ends in a failure.
C7_AnyUnknownNameFails ==
    /\ IsCall("get_solution") =>
        ((\/ unknown_species(call.particle_name)
          \/ unknown_projectiles # {}
          \/ missing_yields(call.particle_name) # {}) => call.err # "")
    /\ IsCall("get_dNdEE") =>
        (<<call.mother, call.daughter>> \notin DecayChannels => call.err # "")
    /\ IsCall("get_integrand") =>
        (call.categ \notin {"conv", "pr"} \cup DOMAIN pdg_id => call.err # "")

\* C7, amended: an unknown species, an unknown projectile name, an untabulated
\* (mother, daughter) pair and a category that is neither conv, pr nor a particle
\* name each end in a raised error; a projectile that only lacks a yield matrix for
\* the species is skipped and contributes nothing, so a species with no yield
\* matrix at all comes back as its direct (and muon sub-solution) component.
C7_UnknownNameFailsButYieldSkipped ==
    /\ IsCall("get_solution") =>
        /\ (unknown_species(call.particle_name) \/ unknown_projectiles # {})
                => call.err \in {"KeyError", "IndexError"}
        /\ (call.err = "" /\ missing_yields(call.particle_name) = 1..Len(projectiles))
                => \A i \in 1..NE :
                      call.ret[i] =
                        RMul(RAdd(call_direct[i],
                                  mu_parts(world, call.particle_name, call.grid_sol,
                                           call_sample.at)[i]),
                             post_scale(i))
    /\ IsCall("get_dNdEE") =>
        (<<call.mother, call.daughter>> \notin DecayChannels => call.err = "KeyError")
    /\ IsCall("get_integrand") =>
        (call.categ \notin {"conv", "pr"} \cup DOMAIN pdg_id => call.err = "KeyError")

\* C7 witness: get_solution returned an array although a projectile had no
\* yield matrix for the species and another had one
C7_Witness ==
    /\ IsCall("get_solution")
    /\ call.err = ""
    /\ missing_yields(call.particle_name) # {}
    /\ missing_yields(call.particle_name) # 1..Len(projectiles)

\* C7 witness of the failures: an unknown projectile name ended a call for a
\* known species
C7_WitnessFailure ==
    /\ IsCall("get_solution")
    /\ ~unknown_species(call.particle_name)
    /\ unknown_projectiles # {}
    /\ call.err = "KeyError"

\* C8 as claimed: with grid_idx None or out of range for the solution passed in,
\* get_solution reads the deepest sample of that solution at depth x_vec[-1] and
\* returns an array of the energy grid's length without raising.
C8_OutOfRangeFallsBack ==
    (/\ IsCall("get_solution")
     /\ get_solution_err(world, call.particle_name, call.grid_sol, call.cur, None) = ""
     /\ (call.grid_idx = None \/ call.grid_idx >= call.grid_sol.n))
    => /\ call.err = ""
       /\ Len(call.ret) = NE
       /\ call.ret = get_solution(world, call.particle_name, call.grid_sol,
                                  call.grid_sol, call.mag, None, call.integrate)

C10_DirectPlusRegenerated ==
    (IsCall("get_solution") /\ call.err = "" /\ ~is_mu(call.particle_name)) =>
        \A i \in 1..NE :
            call.ret[i] = RMul(RAdd(call_direct[i], call_regen[i]), post_scale(i))

\* C10, amended: for a non-muon species a bin is the direct component where
\* that is non-zero, and the regenerated component (scaled by the decay length)
\* only where the direct component is zero.
C10_DirectElseRegenerated ==
    (IsCall("get_solution") /\ call.err = "" /\ ~is_mu(call.particle_name)) =>
        \A i \in 1..NE :
            call.ret[i] =
                RMul(IF call_direct[i] # RZero THEN call_direct[i] ELSE call_regen[i],
                     post_scale(i))

\* C10 witness: a non-muon species with a bin whose direct and regenerated
\* components are both non-zero, and a bin with only a regenerated component
C10_Witness ==
    /\ IsCall("get_solution")
    /\ call.err = ""
    /\ ~is_mu(call.particle_name)
    /\ \E i \in 1..NE : call_direct[i] # RZero /\ call_regen[i] # RZero
    /\ \E i \in 1..NE : call_direct[i] = RZero /\ call_regen[i] # RZero

(***************************************************************************)
(* Claims about the no-mu cache, checked under SpecCache.                  *)
(***************************************************************************)
\* The value prob_nomu computes for a key <<engine, ecr, particle[, prpl]>>
key_value(key) ==
    LET sol == Solution(mceq[key[1]].costh, <<key[2], key[3]>>)
    IN  prob_nomu_body(world, mceq[key[1]].costh, sol, sol,
                       IF Len(key) = 4 THEN key[4] ELSE "step_1")

\* C4: a prob_nomu call whose argument list was last requested on the same
\* engine with fewer than maxsize other keys requested since is a hit: the body
\* does not run, the solver and the cascade-solution cache are left as they
\* were, and the stored value is returned.
C4_NoRecompute ==
    [][(call'.op = "prob_nomu"
        /\ Since(recent, call'.key) # None
        /\ Since(recent, call'.key) < maxsize)
       => /\ call'.hit
          /\ call'.solves = 0
          /\ cache_hit(prob_nomu_cache, call'.key)
          /\ call'.ret = cache_get(prob_nomu_cache, call'.key)
          /\ mceq' = mceq
          /\ grid_sol_cache' = grid_sol_cache]_vars

\* C4 witness: a hit for a key after maxsize - 1 other keys were requested
C4_Witness ==
    /\ call.op = "prob_nomu"
    /\ call.since = maxsize - 1
    /\ call.hit
    /\ call.solves = 0

\* C5: the entries are keyed by the engine and the arguments as passed (primary
\* energy, species, reach tag), one entry per key, stored with that key's value
\* when the key was new and unchanged since;
\* there are never more than maxsize of them; a new key at full capacity drops
\* the entry requested least recently, keeps the others, and the call returns
\* the new key's value without error.
C5_KeyedBoundedLRU ==
    [][/\ Len(prob_nomu_cache') <= maxsize
       /\ Cardinality(cache_keys(prob_nomu_cache')) = Len(prob_nomu_cache')
       /\ \A i \in 1..Len(prob_nomu_cache') :
            \/ \E j \in 1..Len(prob_nomu_cache) :
                    prob_nomu_cache'[i] = prob_nomu_cache[j]
            \/ /\ call'.op = "prob_nomu"
               /\ prob_nomu_cache'[i] = [key |-> call'.key, val |-> call'.ret]
               /\ call'.key \in {<<e>> \o args : e \in 1..Len(mceq), args \in ProbArgs}
               /\ call'.ret = key_value(call'.key)
       /\ (/\ call'.op = "prob_nomu"
           /\ call'.key \notin cache_keys(prob_nomu_cache)
           /\ Len(prob_nomu_cache) = maxsize)
          => /\ \E victim \in cache_keys(prob_nomu_cache) :
                  /\ cache_keys(prob_nomu_cache') =
                        (cache_keys(prob_nomu_cache) \ {victim}) \cup {call'.key}
                  /\ \A k \in cache_keys(prob_nomu_cache) \ {victim} :
                        Since(recent, victim) > Since(recent, k)
             /\ call'.err = ""
             /\ call'.ret = prob_nomu_cache'[Len(prob_nomu_cache')].val]_vars

\* C5 witness: a full cache took a new key and dropped the key requested
\* least recently
C5_Witness ==
    /\ call.op = "prob_nomu"
    /\ ~call.hit
    /\ call.err = ""
    /\ Len(prob_nomu_cache) = maxsize
    /\ Len(recent) = maxsize + 1
    /\ recent[1] \notin cache_keys(prob_nomu_cache)
    /\ prob_nomu_cache[maxsize].key = call.key

\* The entries a cache holds for the engines other than e
kept_for_others(cache, e) == {k \in cache_keys(cache) : k[1] # e}

\* C12 as stated: each engine owns its two caches, so a grid_sol or prob_nomu
\* call on one engine never removes (evicts or overwrites) an entry cached
\* for another engine, whatever the number of entries the caller holds.
C12_CachesPerEngine ==
    [][call'.op = "prob_nomu" =>
        /\ kept_for_others(prob_nomu_cache, call'.key[1])
              \subseteq cache_keys(prob_nomu_cache')
        /\ kept_for_others(grid_sol_cache, call'.key[1])
              \subseteq cache_keys(grid_sol_cache')]_vars

(***************************************************************************)
(* get_dNdEE called again and again on one engine, directly and from       *)
(* get_integrand, selfveto.py:84-104 and 193-201.  get_dNdEE carries no    *)
(* decorator and the engine keeps nothing of a call; recent is the history *)
(* of the channel pairs asked so far, first request first.                 *)
(***************************************************************************)
\* The get_d_matrix lookups one get_dNdEE call makes: lines 91-93
d_matrix_queries(mother, daughter) == <<<<mother, daughter>>>>

\* The channel pairs one get_integrand call asks get_dNdEE for, one call per
\* mother: lines 194-197
channels_of(categ, daughter) ==
    LET mothers == categ_to_mothers(categ, daughter)
    IN  Array([m \in 1..Len(mothers) |-> <<mothers[m], daughter>>])

\* The get_d_matrix lookups of those get_dNdEE calls, in order
RECURSIVE queries_of(_)
queries_of(pairs) ==
    IF pairs = <<>> THEN <<>>
    ELSE d_matrix_queries(Head(pairs)[1], Head(pairs)[2]) \o queries_of(Tail(pairs))

\* The history after the pairs were asked
RECURSIVE Asked(_, _)
Asked(rec, pairs) ==
    IF pairs = <<>> THEN rec
    ELSE Asked(IF \E p \in 1..Len(rec) : rec[p] = Head(pairs) THEN rec
               ELSE Append(rec, Head(pairs)),
               Tail(pairs))

\* Neutrino flavours and categories asked in this process
DaughtersAsked == {"numu"}
KernelCategs == {"conv", "K0L"}

InitKernel ==
    /\ world \in Worlds
    /\ SVS = <<>>
    /\ mceq = <<[costh |-> 100, pmodel |-> "H3a", hadr |-> "SIBYLL2.3c",
                 cur |-> Solution(100, ModelPrim)]>>
    /\ grid_sol_cache = <<[key |-> <<1>>, val |-> Solution(100, ModelPrim)]>>
    /\ prob_nomu_cache = <<>>
    /\ recent = <<>>
    /\ call = NoCall

\* sv.get_dNdEE(mother, daughter)
KernelGetDNdEE ==
    \E pair \in {c \in DecayChannels : c[2] \in DaughtersAsked} :
        /\ call' = [op |-> "kernel", fn |-> "get_dNdEE", asked |-> <<pair>>,
                    queries |-> d_matrix_queries(pair[1], pair[2]),
                    ret |-> <<get_dNdEE(world, pair[1], pair[2])>>]
        /\ recent' = Asked(recent, <<pair>>)
        /\ UNCHANGED <<world, SVS, mceq, grid_sol_cache, prob_nomu_cache>>

\* sv.get_integrand(categ, daughter, grid_sol, idx, identity, esamp, enu): the
\* kernels it works with
KernelGetIntegrand ==
    \E categ \in KernelCategs, daughter \in DaughtersAsked, idx \in 0..(NX - 1) :
      \E pairs \in {channels_of(categ, daughter)} :
        /\ call' = [op |-> "kernel", fn |-> "get_integrand", asked |-> pairs,
                    idx |-> idx, queries |-> queries_of(pairs),
                    ret |-> Array([m \in 1..Len(pairs) |->
                                    get_dNdEE(world, pairs[m][1], pairs[m][2])])]
        /\ recent' = Asked(recent, pairs)
        /\ UNCHANGED <<world, SVS, mceq, grid_sol_cache, prob_nomu_cache>>

NextKernel == KernelGetDNdEE \/ KernelGetIntegrand

SpecKernel == InitKernel /\ [][NextKernel]_vars

\* C13 as stated: the result of get_dNdEE is cached per (mother, daughter): a
\* call for a pair asked before on the engine, directly or from get_integrand,
\* returns the same kernel and makes no decay-matrix lookup for that pair.
C13_KernelCachedPerPair ==
    [][call'.op = "kernel" =>
        \A m \in 1..Len(call'.asked) :
            (\E p \in 1..Len(recent) : recent[p] = call'.asked[m]) =>
                /\ call'.ret[m] = get_dNdEE(world, call'.asked[m][1],
                                            call'.asked[m][2])
                /\ \A q \in 1..Len(call'.queries) :
                        call'.queries[q] # call'.asked[m]]_vars

(***************************************************************************)
(* grid_sol and prob_nomu called on one engine in any order, as the full   *)
(* mode does for each species: prob_nomu for the samples (line 272), then  *)
(* grid_sol for them (line 284).                                           *)
(***************************************************************************)
\* The process after SelfVeto(1.0): one engine, nothing solved
InitSolutions ==
    /\ world \in Worlds
    /\ SVS = <<>>
    /\ mceq = <<SelfVeto(100, "H3a", "SIBYLL2.3c")>>
    /\ grid_sol_cache = <<>>
    /\ prob_nomu_cache = <<>>
    /\ recent = <<>>
    /\ call = NoCall

\* The argument lists grid_sol is called with
GridArgs == {<<>>, <<2, 14>>, <<8, 14>>}

\* sv.grid_sol(*args) on engine e
CallGridSol ==
    \E e \in 1..Len(mceq), args \in GridArgs :
      \E r \in {grid_sol(grid_sol_cache, mceq, e, args)} :
            /\ grid_sol_cache' = r.cache
            /\ mceq' = r.mceq
            /\ call' = [op |-> "grid_sol", e |-> e, args |-> args,
                        key |-> <<e>> \o args, err |-> "", ret |-> r.ret,
                        hit |-> r.solves = 0]
            /\ UNCHANGED <<world, SVS, prob_nomu_cache, recent>>

NextSolutions == CallGridSol \/ CallProbNomu

SpecSolutions == InitSolutions /\ [][NextSolutions]_vars

\* The primary a grid_sol call with these arguments solves for
solved_for(args) == IF args = <<>> THEN ModelPrim ELSE args

MaxAccuracy == 3

\* np.linspace(start, stop, num) as a mutation: endpoint=False
linspace_open(start, stop, num) ==
    Array([k \in 1..num |-> RAdd(RInt(start), Rat((k - 1) * (stop - start), num))])

\* np.linspace(start, stop, num): num evenly spaced values, both ends included
linspace(start, stop, num) ==
    Array([k \in 1..num |->
            IF num = 1 THEN RInt(start)
            ELSE RAdd(RInt(start), Rat((k - 1) * (stop - start), num - 1))])

\* np.logspace(start, stop, num) == 10 ** np.linspace(start, stop, num), by the
\* exponents
logspace(start, stop, num) == linspace(start, stop, num)

\* line 271: ecrs = amu(particle)*np.logspace(2, 10, 10*accuracy)
ecrs_of(accuracy, particle) ==
    [amu |-> amu(particle), exp |-> logspace(2, 10, 10 * accuracy)]

\* 10 ** x in GeV for a whole exponent x
GeV(x) == IPow(10, x[1])

\* A full-mode get_fluxes call reaches the species loop: the samples of the
\* first species are made and the comprehension of line 272 is at the first
BeginFull ==
    \E accuracy \in 1..MaxAccuracy :
        /\ call.op # "ecrs"
        /\ call' = [op |-> "ecrs", accuracy |-> accuracy, species |-> 1,
                    particle |-> nucleus_ids[1],
                    ecrs |-> ecrs_of(accuracy, nucleus_ids[1]), at |-> 1]
        /\ UNCHANGED <<world, SVS, mceq, grid_sol_cache, prob_nomu_cache, recent>>

\* for ecr in ecrs: the next sample
NextSample ==
    /\ call.op = "ecrs"
    /\ call.at < Len(call.ecrs.exp)
    /\ call' = [call EXCEPT !.at = @ + 1]
    /\ UNCHANGED <<world, SVS, mceq, grid_sol_cache, prob_nomu_cache, recent>>

\* for particle in pmodel.nucleus_ids: the samples of the next species
NextSpecies ==
    /\ call.op = "ecrs"
    /\ call.at = Len(call.ecrs.exp)
    /\ call.species < Len(nucleus_ids)
    /\ call' = [call EXCEPT !.species = @ + 1,
                            !.particle = nucleus_ids[call.species + 1],
                            !.ecrs = ecrs_of(call.accuracy,
                                             nucleus_ids[call.species + 1]),
                            !.at = 1]
    /\ UNCHANGED <<world, SVS, mceq, grid_sol_cache, prob_nomu_cache, recent>>

NextSamples == BeginFull \/ NextSample \/ NextSpecies

SpecSamples == Init /\ [][NextSamples]_vars

(***************************************************************************)
(* Claims about the primary-energy samples, checked under SpecSamples.     *)
(***************************************************************************)
\* The exponents of a species' samples rise strictly
Rising(exp) == \A k \in 1..(Len(exp) - 1) : RLt(exp[k], exp[k + 1])

\* C11 as stated: for every species the samples of the full mode are
\* 10*accuracy, strictly increasing, the first 50*A GeV and the last
\* 1e10*A GeV, A the mass number of the species.
C11_SamplesFrom50A ==
    IsCall("ecrs") =>
        /\ Len(call.ecrs.exp) = 10 * call.accuracy
        /\ call.ecrs.amu = amu(call.particle)
        /\ Rising(call.ecrs.exp)
        /\ call.ecrs.exp[1][2] = 1
        /\ call.ecrs.amu * GeV(call.ecrs.exp[1]) = 50 * amu(call.particle)
        /\ call.ecrs.exp[Len(call.ecrs.exp)] = RInt(10)

\* C11 amended: for every species the samples of the full mode are
\* 10*accuracy, strictly increasing, the first 100*A GeV (10**2) and the last
\* 1e10*A GeV; all lie above the 50*A GeV the solver accepts.
C11_SamplesFrom100A ==
    IsCall("ecrs") =>
        /\ Len(call.ecrs.exp) = 10 * call.accuracy
        /\ call.ecrs.amu = amu(call.particle)
        /\ Rising(call.ecrs.exp)
        /\ call.ecrs.exp[1][2] = 1
        /\ call.ecrs.amu * GeV(call.ecrs.exp[1]) = 100 * amu(call.particle)
        /\ call.ecrs.exp[Len(call.ecrs.exp)] = RInt(10)
        /\ call.ecrs.amu * GeV(call.ecrs.exp[1]) > 50 * amu(call.particle)

\* C11 witness: the last sample of the last species at the default accuracy
C11_Witness ==
    /\ IsCall("ecrs")
    /\ call.accuracy = 3
    /\ call.species = Len(nucleus_ids)
    /\ amu(call.particle) > 1
    /\ call.at = 30
    /\ call.ecrs.exp[call.at] = RInt(10)
    /\ call.ecrs.amu * GeV(call.ecrs.exp[1]) = 400

(***************************************************************************)
(* The samples the outer integration of the full mode runs over,           *)
(* selfveto.py:278-279 and 302-303, for sample axes of any length and      *)
(* neutrino energies below, inside and above them.                         *)
(***************************************************************************)
\* The longest sample axis looked at, and the neutrino energies asked
MaxSamples == 5
EnusAsked == 1..(amu(nucleus_ids[Len(nucleus_ids)]) * IPow(2, MaxSamples) + 1)

\* line 271 for an axis of n samples an octave apart: amu * 2 ** (1..n)
ecrs_upto(particle, n) == Array([k \in 1..n |-> amu(particle) * IPow(2, k)])

\* The species loop reaches lines 278-279 for a species
CallIstart ==
    \E j \in 1..Len(nucleus_ids), n \in 2..MaxSamples, enu \in EnusAsked :
      \E ecrs \in {ecrs_upto(nucleus_ids[j], n)} :
        /\ call' = [op |-> "istart", particle |-> nucleus_ids[j], enu |-> enu,
                    ecrs |-> ecrs, istart |-> get_istart(ecrs, enu),
                    used |-> used_samples(ecrs, enu)]
        /\ UNCHANGED <<world, SVS, mceq, grid_sol_cache, prob_nomu_cache, recent>>

SpecStart == Init /\ [][CallIstart]_vars

\* C15 as stated: the outer integration of a species runs over the samples
\* from the last one not exceeding enu onward, over all of them when enu is
\* below the first; no sample with a later sample at or below enu takes part,
\* for every enu, those at or above the largest sample included.
C15_FromLastSampleBelowEnu ==
    IsCall("istart") =>
        LET ecrs == call.ecrs
            below == {k \in 1..Len(ecrs) : ecrs[k] <= call.enu}
            first == IF below = {} THEN 1 ELSE SetMax(below)
        IN  /\ call.used = SubSeq(ecrs, first, Len(ecrs))
            /\ \A k \in 1..(Len(ecrs) - 1) :
                    ecrs[k + 1] <= call.enu =>
                        \A u \in 1..Len(call.used) : call.used[u] # ecrs[k]

====
